---------------------------- MODULE Spec2Model ----------------------------
(***************************************************************************)
(* Model of src/property.rs: the Property trait (key, parse_value) and the *)
(* eight property types stamped out by the macros property_basic,          *)
(* property_basic_option and property_enum.                                *)
(*                                                                         *)
(* A &str is modelled as the sequence of its bytes, each byte written as a *)
(* one-token string ("t", "4", "+", " "; "xC3" "xA9" are the two bytes of  *)
(* a non-ASCII character).  No conversion is the identity: the integer and *)
(* boolean parsers walk the bytes as the standard library does.            *)
(***************************************************************************)
EXTENDS Integers, Sequences, FiniteSets, TLC

(***************************************************************************)
(* Bounds of the model.                                                    *)
(***************************************************************************)
\* Width in bits of usize on the modelled target (16 is the smallest width
\* Rust supports; every property below is stated for an arbitrary width).
WordBits == 16
\* Longest raw string enumerated exhaustively over Alphabet.
MaxLen == 3
\* Calls one caller makes in the concurrent specification.
MaxCalls == 2

RECURSIVE Pow2(_)
Pow2(n) == IF n = 0 THEN 1 ELSE 2 * Pow2(n - 1)

\* usize::MAX
UsizeMax == Pow2(WordBits) - 1

(***************************************************************************)
(* Option and Result values.                                               *)
(***************************************************************************)
None == [tag |-> "None"]
Some(v) == [tag |-> "Some", val |-> v]
Ok(v) == [tag |-> "Ok", val |-> v]
Err(e) == [tag |-> "Err", err |-> e]

\* What a body leaves behind when it unwinds instead of returning.
Panic == [tag |-> "Panic"]

\* Typed values: a usize, a bool, an alternative of one of the enums, a &'static str.
Usize(n) == [usize |-> n]
Bool(b) == [bool |-> b]
Variant(e, v) == [enum |-> e, variant |-> v]
Str(s) == [str |-> s]

\* Result::ok
ok(r) == IF r.tag = "Ok" THEN Some(r.val) ELSE None

\* Option::map(Some)
map_Some(o) == IF o.tag = "Some" THEN Some(Some(o.val)) ELSE None

(***************************************************************************)
(* String literals of the source, byte by byte.                            *)
(***************************************************************************)
str_tab == <<"t", "a", "b">>
str_space == <<"s", "p", "a", "c", "e">>
str_lf == <<"l", "f">>
str_crlf == <<"c", "r", "l", "f">>
str_cr == <<"c", "r">>
str_utf8 == <<"u", "t", "f", "-", "8">>
str_latin1 == <<"l", "a", "t", "i", "n", "1">>
str_utf16le == <<"u", "t", "f", "-", "1", "6", "l", "e">>
str_utf16be == <<"u", "t", "f", "-", "1", "6", "b", "e">>
str_utf8bom == <<"u", "t", "f", "-", "8", "-", "b", "o", "m">>
str_off == <<"o", "f", "f">>
str_true == <<"t", "r", "u", "e">>
str_false == <<"f", "a", "l", "s", "e">>

LowerChars == <<"a", "b", "c", "d", "e", "f", "g", "h", "i", "j", "k", "l", "m",
                "n", "o", "p", "q", "r", "s", "t", "u", "v", "w", "x", "y", "z">>

UpperChars == <<"A", "B", "C", "D", "E", "F", "G", "H", "I", "J", "K", "L", "M",
                "N", "O", "P", "Q", "R", "S", "T", "U", "V", "W", "X", "Y", "Z">>

\* The ASCII upper-case form of one byte.
Upper(ch) ==
    IF \E i \in 1..26 : LowerChars[i] = ch
    THEN UpperChars[CHOOSE i \in 1..26 : LowerChars[i] = ch]
    ELSE ch

\* s with the bytes at the positions in at upper-cased.
UpperAt(s, at) == [i \in 1..Len(s) |-> IF i \in at THEN Upper(s[i]) ELSE s[i]]

\* s in ASCII upper case.
to_ascii_uppercase(s) == UpperAt(s, 1..Len(s))

\* ASCII whitespace.
Whitespace == {" ", "\t", "\n"}

\* str::trim
RECURSIVE trim(_)
trim(s) ==
    IF s # <<>> /\ s[1] \in Whitespace THEN trim(Tail(s))
    ELSE IF s # <<>> /\ s[Len(s)] \in Whitespace THEN trim(SubSeq(s, 1, Len(s) - 1))
    ELSE s

(***************************************************************************)
(* raw.parse::<usize>(): usize::from_str, radix 10.                        *)
(***************************************************************************)
DigitChars == <<"0", "1", "2", "3", "4", "5", "6", "7", "8", "9">>

\* char::to_digit(10)
to_digit(ch) ==
    IF \E i \in 1..10 : DigitChars[i] = ch
    THEN Some((CHOOSE i \in 1..10 : DigitChars[i] = ch) - 1)
    ELSE None

\* Variant of checked_mul: the product wraps modulo 2^w.
checked_mul_wrapping(a, b) == Some((a * b) % (UsizeMax + 1))

\* usize::checked_mul
checked_mul(a, b) == IF a * b > UsizeMax THEN None ELSE Some(a * b)

\* usize::checked_add
checked_add(a, b) == IF a + b > UsizeMax THEN None ELSE Some(a + b)

\* The digit loop: result = result * 10 + digit, every step checked.
RECURSIVE accumulate(_, _)
accumulate(digits, result) ==
    IF digits = <<>> THEN Ok(Usize(result))
    ELSE LET mul == checked_mul(result, 10)
             x == to_digit(Head(digits))
         IN IF x = None THEN Err("InvalidDigit")
            ELSE IF mul = None THEN Err("PosOverflow")
            ELSE LET sum == checked_add(mul.val, x.val)
                 IN IF sum = None THEN Err("PosOverflow")
                    ELSE accumulate(Tail(digits), sum.val)

\* <usize as FromStr>::from_str
usize_from_str(src) ==
    IF src = <<>> THEN Err("Empty")
    ELSE IF Len(src) = 1 /\ src[1] \in {"+", "-"} THEN Err("InvalidDigit")
    ELSE IF src[1] = "+" THEN accumulate(Tail(src), 0)
    ELSE accumulate(src, 0)

\* Variant of bool_from_str: the comparison ignores ASCII case.
bool_from_str_ignore_case(src) ==
    IF to_ascii_uppercase(src) = to_ascii_uppercase(str_true) THEN Ok(Bool(TRUE))
    ELSE IF to_ascii_uppercase(src) = to_ascii_uppercase(str_false) THEN Ok(Bool(FALSE))
    ELSE Err("ParseBoolError")

\* <bool as FromStr>::from_str
bool_from_str(src) ==
    IF src = str_true THEN Ok(Bool(TRUE))
    ELSE IF src = str_false THEN Ok(Bool(FALSE))
    ELSE Err("ParseBoolError")

\* str::parse::<$parse_as>
parse(parse_as, raw) ==
    IF parse_as = "usize" THEN usize_from_str(raw) ELSE bool_from_str(raw)

(***************************************************************************)
(* The macros.                                                             *)
(***************************************************************************)
\* Variant of property_basic: raw.trim().parse::<$parse_as>().ok()
property_basic_trim(parse_as, raw) == ok(parse(parse_as, trim(raw)))

\* Variant of property_basic: Some(raw.parse::<$parse_as>().unwrap())
property_basic_unwrap(parse_as, raw) ==
    IF parse(parse_as, raw).tag = "Ok" THEN Some(parse(parse_as, raw).val)
    ELSE Panic

\* property_basic!: raw.parse::<$parse_as>().ok()
property_basic(parse_as, raw) == ok(parse(parse_as, raw))

\* Variant of property_basic_option: raw.eq_ignore_ascii_case($disable)
property_basic_option_ignore_case(parse_as, disable, raw) ==
    IF to_ascii_uppercase(raw) = to_ascii_uppercase(disable) THEN Some(None)
    ELSE map_Some(ok(parse(parse_as, raw)))

\* Variant of property_basic_option: the wiki's "positive integer", 0 refused.
property_basic_option_positive(parse_as, disable, raw) ==
    IF raw = disable THEN Some(None)
    ELSE IF parse(parse_as, raw) = Ok(Usize(0)) THEN None
    ELSE map_Some(ok(parse(parse_as, raw)))

\* Variant of property_basic_option: parsed as a signed integer, then
\* converted (usize::try_from), so that "-0" is read as 0.
property_basic_option_signed(parse_as, disable, raw) ==
    IF raw = disable THEN Some(None)
    ELSE IF Len(raw) > 1 /\ raw[1] = "-"
         THEN IF parse(parse_as, Tail(raw)) = Ok(Usize(0))
              THEN Some(Some(Usize(0))) ELSE None
         ELSE map_Some(ok(parse(parse_as, raw)))

\* property_basic_option!: the $disable literal first, then the parse.
property_basic_option(parse_as, disable, raw) ==
    IF raw = disable THEN Some(None)
    ELSE map_Some(ok(parse(parse_as, raw)))

\* Variant of property_enum: arms compared ignoring ASCII case.
property_enum_ignore_case(prop_id, arms, raw) ==
    LET same(a, b) == to_ascii_uppercase(a) = to_ascii_uppercase(b)
    IN IF \E i \in 1..Len(arms) : same(arms[i][1], raw)
       THEN Some(Variant(prop_id,
                         arms[CHOOSE i \in 1..Len(arms) : same(arms[i][1], raw)][2]))
       ELSE None

\* property_enum!: match raw { $($string => Some($variant)),+, _ => None };
\* the arms are tried in order.
property_enum(prop_id, arms, raw) ==
    IF \E i \in 1..Len(arms) : arms[i][1] = raw
    THEN LET first == CHOOSE i \in 1..Len(arms) :
                          /\ arms[i][1] = raw
                          /\ \A j \in 1..(i - 1) : arms[j][1] # raw
         IN Some(Variant(prop_id, arms[first][2]))
    ELSE None

(***************************************************************************)
(* The property declarations.                                              *)
(***************************************************************************)
Props == {"IndentStyle", "IndentSize", "TabWidth", "EndOfLine", "Charset",
          "TrimTrailingWs", "FinalNewline", "MaxLineLen"}

IndentStyleArms == << <<str_tab, "Tabs">>, <<str_space, "Spaces">> >>

EndOfLineArms == << <<str_lf, "Lf">>, <<str_crlf, "CrLf">>, <<str_cr, "Cr">> >>

CharsetArms ==
    << <<str_utf8, "Utf8">>, <<str_latin1, "Latin1">>,
       <<str_utf16le, "Utf16Le">>, <<str_utf16be, "Utf16Be">>,
       <<str_utf8bom, "Utf8Bom">> >>

\* Variant of key: TabWidth declared with IndentSize's name.
key_copied(P) ==
    CASE P = "IndentStyle" -> "indent_style"
      [] P = "IndentSize" -> "indent_size"
      [] P = "TabWidth" -> "indent_size"
      [] P = "EndOfLine" -> "end_of_line"
      [] P = "Charset" -> "charset"
      [] P = "TrimTrailingWs" -> "trim_trailing_whitespace"
      [] P = "FinalNewline" -> "insert_final_newline"
      [] P = "MaxLineLen" -> "max_line_length"

\* Property::key
key(P) ==
    CASE P = "IndentStyle" -> "indent_style"
      [] P = "IndentSize" -> "indent_size"
      [] P = "TabWidth" -> "tab_width"
      [] P = "EndOfLine" -> "end_of_line"
      [] P = "Charset" -> "charset"
      [] P = "TrimTrailingWs" -> "trim_trailing_whitespace"
      [] P = "FinalNewline" -> "insert_final_newline"
      [] P = "MaxLineLen" -> "max_line_length"

\* Property::parse_value
parse_value(P, raw) ==
    CASE P = "IndentStyle" -> property_enum("IndentStyle", IndentStyleArms, raw)
      [] P = "IndentSize" -> property_basic_option("usize", str_tab, raw)
      [] P = "TabWidth" -> property_basic("usize", raw)
      [] P = "EndOfLine" -> property_enum("EndOfLine", EndOfLineArms, raw)
      [] P = "Charset" -> property_enum("Charset", CharsetArms, raw)
      [] P = "TrimTrailingWs" -> property_basic("bool", raw)
      [] P = "FinalNewline" -> property_basic("bool", raw)
      [] P = "MaxLineLen" -> property_basic_option("usize", str_off, raw)

(***************************************************************************)
(* Raw strings handed to parse_value.                                      *)
(***************************************************************************)
\* Bytes of the exhaustive enumeration: digits, signs, blank, a letter.
Alphabet == {"0", "1", "4", "9", "+", "-", " ", "a"}

\* Every string over Alphabet of length at most n.
SeqsUpTo(n) == UNION {[1..k -> Alphabet] : k \in 0..n}

\* Every literal the source compares against or the standard parsers accept.
Literals ==
    {str_tab, str_space, str_lf, str_crlf, str_cr, str_utf8, str_latin1,
     str_utf16le, str_utf16be, str_utf8bom, str_off, str_true, str_false}

\* Case variants of s: one byte upper-cased, or all of them.
CaseVariants(s) ==
    {UpperAt(s, {i}) : i \in 1..Len(s)} \cup {UpperAt(s, 1..Len(s))}

\* Proper prefixes and suffixes of s.
Fragments(s) ==
    {SubSeq(s, 1, k) : k \in 0..(Len(s) - 1)}
        \cup {SubSeq(s, k, Len(s)) : k \in 2..Len(s)}

\* Bytes put before or after a literal: blank, tab, newline, letters, a
\* digit, signs and the two bytes of a non-ASCII character.
EdgeChars == {" ", "\t", "\n", "s", "e", "-", "+", "0", "xC3", "xA9"}

\* s with one byte before it, after it, or on both sides.
Extensions(s) ==
    {<<ch>> \o s : ch \in EdgeChars} \cup {s \o <<ch>> : ch \in EdgeChars}
        \cup {<<ch>> \o s \o <<ch>> : ch \in EdgeChars}

\* The canonical decimal literal of n.
RECURSIVE Decimal(_)
Decimal(n) ==
    IF n < 10 THEN <<DigitChars[n + 1]>>
    ELSE Decimal(n \div 10) \o <<DigitChars[(n % 10) + 1]>>

\* Decimal literals around usize::MAX and around 2^w, plain, signed,
\* zero-padded and extended by a digit.
Boundary ==
    LET nums == {0, 1, 2, 4, 80, 1000, UsizeMax - 1, UsizeMax, UsizeMax + 1,
                 UsizeMax + 5, 2 * UsizeMax, 2 * UsizeMax + 2, 10 * UsizeMax,
                 10 * UsizeMax + 9, 16 * (UsizeMax + 1)}
        lits == {Decimal(n) : n \in nums}
    IN lits \cup {<<"+">> \o d : d \in lits} \cup {<<"-">> \o d : d \in lits}
            \cup {<<"0">> \o d : d \in lits} \cup {<<"0", "0">> \o d : d \in lits}
            \cup {d \o <<"0">> : d \in lits} \cup {d \o <<"9">> : d \in lits}
            \cup {<<"+", "0">> \o d : d \in lits}

\* Strings the documentation and the EditorConfig wiki talk about.
Examples ==
    {<<"t", "w", "o">>, <<"y", "e", "s">>, <<"n", "o">>, <<"4", ".", "0">>,
     <<"1", "_", "0", "0", "0">>, <<"1", ",", "0", "0", "0">>,
     <<"0", "x", "1", "0">>, <<"1", "e", "3">>, <<"l", "f", "s">>,
     <<"u", "n", "s", "e", "t">>, <<"xC3", "xA9">>, <<"xEF", "xBC", "x94">>,
     <<"+", "+", "4">>, <<"+", "-", "4">>, <<"4", "+">>,
     [i \in 1..12 |-> "9"], [i \in 1..12 |-> "0"],
     [i \in 1..12 |-> IF i = 12 THEN "7" ELSE "0"],
     [i \in 1..12 |-> IF i = 1 THEN "1" ELSE "0"]}

\* The raw strings of the sequential specification.
Inputs ==
    SeqsUpTo(MaxLen) \cup Literals \cup Boundary \cup Examples
        \cup UNION {CaseVariants(s) \cup Fragments(s) \cup Extensions(s) :
                    s \in Literals}

\* The raw strings of the concurrent specification.
ConcInputs == {str_tab, str_off, <<"0">>}

(***************************************************************************)
(* The callers.  The trait has no instances and the source no static: the  *)
(* only state is each caller's own call (its arguments, its return value). *)
(* hist records, per caller, the operations it has completed so far.       *)
(***************************************************************************)
VARIABLES pc, op, prop, raw, ret, hist

vars == <<pc, op, prop, raw, ret, hist>>

Callers == {"c1", "c2"}

Ops == {"key", "parse_value"}

\* The return slot of a call that has not returned.
NoRet == [tag |-> "NoRet"]

\* The arguments a call of o can carry.
CallArgs(o, raws) ==
    IF o = "key" THEN {<<P, <<>>>> : P \in Props} ELSE Props \X raws

\* Caller c calls P::key() or P::parse_value(r).
Invoke(c, o, P, r) ==
    /\ pc[c] \in {"idle", "returned"}
    /\ Len(hist[c]) < MaxCalls
    /\ pc' = [pc EXCEPT ![c] = "called"]
    /\ op' = [op EXCEPT ![c] = o]
    /\ prop' = [prop EXCEPT ![c] = P]
    /\ raw' = [raw EXCEPT ![c] = r]
    /\ ret' = [ret EXCEPT ![c] = NoRet]
    /\ UNCHANGED hist

\* Variant of ParseValue: the result is kept in a static slot keyed by raw
\* alone, so a call answers what another caller's call on the same raw got.
ParseValueCached(c) ==
    /\ pc[c] = "called"
    /\ op[c] = "parse_value"
    /\ LET hit == {d \in Callers \ {c} :
                      /\ pc[d] = "returned"
                      /\ op[d] = "parse_value"
                      /\ raw[d] = raw[c]}
           v == IF hit # {} THEN ret[CHOOSE d \in hit : TRUE]
                ELSE parse_value(prop[c], raw[c])
       IN /\ ret' = [ret EXCEPT ![c] = v]
          /\ pc' = [pc EXCEPT ![c] = "returned"]
    /\ hist' = [hist EXCEPT ![c] = Append(@, "parse_value")]
    /\ UNCHANGED <<op, prop, raw>>

\* The body of parse_value runs and leaves: it returns its value to c, or
\* it unwinds.
ParseValue(c) ==
    /\ pc[c] = "called"
    /\ op[c] = "parse_value"
    /\ LET v == parse_value(prop[c], raw[c])
       IN /\ ret' = [ret EXCEPT ![c] = v]
          /\ pc' = [pc EXCEPT ![c] = IF v = Panic THEN "panicked" ELSE "returned"]
    /\ hist' = [hist EXCEPT ![c] = Append(@, "parse_value")]
    /\ UNCHANGED <<op, prop, raw>>

\* The body of key runs and returns to c.
Key(c) ==
    /\ pc[c] = "called"
    /\ op[c] = "key"
    /\ ret' = [ret EXCEPT ![c] = Str(key(prop[c]))]
    /\ pc' = [pc EXCEPT ![c] = "returned"]
    /\ hist' = [hist EXCEPT ![c] = Append(@, "key")]
    /\ UNCHANGED <<op, prop, raw>>

\* Sequential specification: one call by one caller, its arguments drawn
\* from Props and Inputs.
Init ==
    /\ \E o \in Ops : \E a \in CallArgs(o, Inputs) :
          /\ op = [c \in Callers |-> IF c = "c1" THEN o ELSE "none"]
          /\ prop = [c \in Callers |-> IF c = "c1" THEN a[1] ELSE "none"]
          /\ raw = [c \in Callers |-> IF c = "c1" THEN a[2] ELSE <<>>]
    /\ pc = [c \in Callers |-> IF c = "c1" THEN "called" ELSE "idle"]
    /\ ret = [c \in Callers |-> NoRet]
    /\ hist = [c \in Callers |-> <<>>]

Next == ParseValue("c1") \/ Key("c1")

Spec == Init /\ [][Next]_vars

\* Concurrent specification: every caller calls key and parse_value in any
\* order, the calls of different callers interleaved.
InitConc ==
    /\ pc = [c \in Callers |-> "idle"]
    /\ op = [c \in Callers |-> "none"]
    /\ prop = [c \in Callers |-> "none"]
    /\ raw = [c \in Callers |-> <<>>]
    /\ ret = [c \in Callers |-> NoRet]
    /\ hist = [c \in Callers |-> <<>>]

NextConc ==
    \E c \in Callers :
        \/ \E o \in Ops : \E a \in CallArgs(o, ConcInputs) : Invoke(c, o, a[1], a[2])
        \/ ParseValue(c)
        \/ Key(c)

SpecConc == InitConc /\ [][NextConc]_vars

(***************************************************************************)
(* Vocabulary of the properties: the documented tables and grammars,       *)
(* written independently of the operators above.                           *)
(***************************************************************************)
\* Caller c holds the return value of P::parse_value(raw[c]).
Returned(c, P) == pc[c] = "returned" /\ op[c] = "parse_value" /\ prop[c] = P

EnumProps == {"IndentStyle", "EndOfLine", "Charset"}

IntProps == {"TabWidth", "IndentSize", "MaxLineLen"}

BoolProps == {"TrimTrailingWs", "FinalNewline"}

OptionProps == {"IndentSize", "MaxLineLen"}

\* The documented table of each enum: (literal, alternative) pairs.
DocTable(P) ==
    CASE P = "IndentStyle" -> {<<str_tab, "Tabs">>, <<str_space, "Spaces">>}
      [] P = "EndOfLine" ->
            {<<str_lf, "Lf">>, <<str_crlf, "CrLf">>, <<str_cr, "Cr">>}
      [] P = "Charset" ->
            {<<str_utf8, "Utf8">>, <<str_latin1, "Latin1">>,
             <<str_utf16le, "Utf16Le">>, <<str_utf16be, "Utf16Be">>,
             <<str_utf8bom, "Utf8Bom">>}

\* The documented sentinel of each optional-scalar property.
DocSentinel(P) == IF P = "IndentSize" THEN str_tab ELSE str_off

IsDigit(ch) == \E i \in 1..10 : DigitChars[i] = ch

\* s is one or more ASCII decimal digits.
AllDigits(s) == s # <<>> /\ \A i \in 1..Len(s) : IsDigit(s[i])

\* s is the canonical base-10 literal of a non-negative integer.
IsCanonical(s) == AllDigits(s) /\ (Len(s) = 1 \/ s[1] # "0")

\* s without its leading zeros, one digit at least kept.
RECURSIVE StripZeros(_)
StripZeros(s) ==
    IF Len(s) > 1 /\ s[1] = "0" THEN StripZeros(Tail(s)) ELSE s

DigitRank(ch) == CHOOSE i \in 1..10 : DigitChars[i] = ch

\* For canonical literals a and b: the number a is at most the number b.
LiteralLeq(a, b) ==
    \/ Len(a) < Len(b)
    \/ /\ Len(a) = Len(b)
       /\ \/ a = b
          \/ \E i \in 1..Len(a) :
                /\ DigitRank(a[i]) < DigitRank(b[i])
                /\ \A j \in 1..(i - 1) : a[j] = b[j]

\* The digit string s denotes a number greater than usize::MAX.
ExceedsUsizeMax(s) == ~LiteralLeq(StripZeros(s), Decimal(UsizeMax))

\* s without one leading "+".
Unsigned(s) == IF s # <<>> /\ s[1] = "+" THEN Tail(s) ELSE s

\* The grammar usize's parser accepts: an optional "+", then one or more
\* digits denoting a number of at most usize::MAX.
InUsizeGrammar(s) == AllDigits(Unsigned(s)) /\ ~ExceedsUsizeMax(Unsigned(s))

\* r is presence of the usize whose canonical literal is lit.
IsUsizeOf(r, lit) ==
    /\ DOMAIN r = {"tag", "val"}
    /\ r.tag = "Some"
    /\ DOMAIN r.val = {"usize"}
    /\ r.val.usize \in 0..UsizeMax
    /\ Decimal(r.val.usize) = lit

(***************************************************************************)
(* C1.  For IndentStyle, EndOfLine and Charset, parse_value is an exact,   *)
(* case-sensitive equality match against the documented table: a table     *)
(* literal returns exactly its alternative, and every raw string not in    *)
(* the table (case variants, near-misses, prefixes and extensions of a     *)
(* literal, surrounding whitespace, the empty string) returns None.        *)
(***************************************************************************)
C1_EnumExactMatch ==
    \A c \in Callers : \A P \in EnumProps :
        Returned(c, P) =>
            /\ \A e \in DocTable(P) :
                  raw[c] = e[1] => ret[c] = Some(Variant(P, e[2]))
            /\ (\A e \in DocTable(P) : raw[c] # e[1]) => ret[c] = None

\* Charset has been asked for "utf-8-", an extension of "utf-8" and a
\* prefix of "utf-8-bom", and has failed.
C1_Witness ==
    /\ Returned("c1", "Charset")
    /\ raw["c1"] = str_utf8 \o <<"-">>
    /\ ret["c1"] = None

(***************************************************************************)
(* C2 as stated.  TabWidth::parse_value(raw) succeeds with n if and only   *)
(* if raw is the canonical base-10 literal of the non-negative integer n;  *)
(* a leading "+" and leading zeros fail.                                   *)
(***************************************************************************)
C2_CanonicalOnly ==
    \A c \in Callers :
        Returned(c, "TabWidth") =>
            IF IsCanonical(raw[c]) THEN IsUsizeOf(ret[c], raw[c])
            ELSE ret[c] = None

(***************************************************************************)
(* C2 as amended.  TabWidth::parse_value(raw) succeeds with n if and only  *)
(* if raw is an optional leading "+" followed by one or more ASCII decimal *)
(* digits (leading zeros allowed) denoting n <= usize::MAX; every other    *)
(* string fails: "-1", "4.0", " 4", "4 ", "1_000", "+", the empty string.  *)
(***************************************************************************)
C2_UsizeGrammar ==
    \A c \in Callers :
        Returned(c, "TabWidth") =>
            IF InUsizeGrammar(raw[c])
            THEN IsUsizeOf(ret[c], StripZeros(Unsigned(raw[c])))
            ELSE ret[c] = None

\* TabWidth has been asked for "+04" and has answered 4.
C2_Witness ==
    /\ Returned("c1", "TabWidth")
    /\ raw["c1"] = <<"+", "0", "4">>
    /\ ret["c1"] = Some(Usize(4))

(***************************************************************************)
(* C3 as stated.  IndentSize (sentinel "tab") and MaxLineLength (sentinel  *)
(* "off") follow three ordered steps: raw equal to the sentinel gives      *)
(* Some(None); otherwise raw parsing as a strict (canonical base-10)       *)
(* non-negative integer n gives Some(Some(n)); otherwise None.             *)
(***************************************************************************)
C3_StrictThreeSteps ==
    \A c \in Callers : \A P \in OptionProps :
        Returned(c, P) =>
            IF raw[c] = DocSentinel(P) THEN ret[c] = Some(None)
            ELSE IF IsCanonical(raw[c])
                 THEN ret[c].tag = "Some" /\ IsUsizeOf(ret[c].val, raw[c])
                 ELSE ret[c] = None

(***************************************************************************)
(* C3 as amended.  The same three ordered steps, the integer step being    *)
(* the one usize's parser implements: raw equal to the sentinel gives      *)
(* Some(None); otherwise an optional "+" followed by one or more digits    *)
(* (leading zeros allowed) denoting n <= usize::MAX gives Some(Some(n));   *)
(* otherwise None.  Some(None) is returned if and only if raw is the       *)
(* property's own sentinel.                                                *)
(***************************************************************************)
C3_ThreeSteps ==
    \A c \in Callers : \A P \in OptionProps :
        Returned(c, P) =>
            /\ IF raw[c] = DocSentinel(P) THEN ret[c] = Some(None)
               ELSE IF InUsizeGrammar(raw[c])
                    THEN /\ ret[c].tag = "Some"
                         /\ IsUsizeOf(ret[c].val, StripZeros(Unsigned(raw[c])))
                    ELSE ret[c] = None
            /\ ret[c] = Some(None) <=> raw[c] = DocSentinel(P)

\* MaxLineLength has been asked for "off" and has answered explicit absence.
C3_Witness ==
    /\ Returned("c1", "MaxLineLen")
    /\ raw["c1"] = str_off
    /\ ret["c1"] = Some(None)

(***************************************************************************)
(* C4.  A size of zero is accepted: on "0" TabWidth returns presence of 0  *)
(* and IndentSize and MaxLineLength return Some(Some(0)); no               *)
(* integer-valued property imposes a lower bound of 1.                     *)
(***************************************************************************)
C4_ZeroAccepted ==
    \A c \in Callers :
        /\ Returned(c, "TabWidth") /\ raw[c] = <<"0">> => ret[c] = Some(Usize(0))
        /\ \A P \in OptionProps :
              Returned(c, P) /\ raw[c] = <<"0">> => ret[c] = Some(Some(Usize(0)))

\* IndentSize has been asked for "0" and has answered presence of 0.
C4_Witness ==
    /\ Returned("c1", "IndentSize")
    /\ raw["c1"] = <<"0">>
    /\ ret["c1"] = Some(Some(Usize(0)))

(***************************************************************************)
(* C5.  For TrimTrailingWhitespace and FinalNewline, "true" gives presence *)
(* of true, "false" presence of false, and every other raw string fails    *)
(* (case variants, "1"/"0", "yes"/"no", surrounding whitespace, empty).    *)
(***************************************************************************)
C5_BoolExact ==
    \A c \in Callers : \A P \in BoolProps :
        Returned(c, P) =>
            /\ raw[c] = str_true => ret[c] = Some(Bool(TRUE))
            /\ raw[c] = str_false => ret[c] = Some(Bool(FALSE))
            /\ raw[c] \notin {str_true, str_false} => ret[c] = None

\* TrimTrailingWhitespace has been asked for "True" and has failed.
C5_Witness ==
    /\ Returned("c1", "TrimTrailingWs")
    /\ raw["c1"] = <<"T", "r", "u", "e">>
    /\ ret["c1"] = None

(***************************************************************************)
(* C6.  key() is a constant per property, the canonical EditorConfig name; *)
(* the eight keys are pairwise distinct; and key() returns the same value  *)
(* whatever parse_value calls happened before it.                          *)
(***************************************************************************)
DocKey(P) ==
    CASE P = "IndentStyle" -> "indent_style"
      [] P = "IndentSize" -> "indent_size"
      [] P = "TabWidth" -> "tab_width"
      [] P = "EndOfLine" -> "end_of_line"
      [] P = "Charset" -> "charset"
      [] P = "TrimTrailingWs" -> "trim_trailing_whitespace"
      [] P = "FinalNewline" -> "insert_final_newline"
      [] P = "MaxLineLen" -> "max_line_length"

KeyReturned(c) == pc[c] = "returned" /\ op[c] = "key"

C6_KeyConstant ==
    /\ \A c \in Callers : KeyReturned(c) => ret[c] = Str(DocKey(prop[c]))
    /\ \A c, d \in Callers :
          KeyReturned(c) /\ KeyReturned(d) /\ prop[c] # prop[d]
              => ret[c] # ret[d]

\* A caller has received FinalNewline's key after a parse_value call of its
\* own, while the other caller holds a parse_value result.
C6_Witness ==
    /\ KeyReturned("c1")
    /\ prop["c1"] = "FinalNewline"
    /\ hist["c1"] = <<"parse_value", "key">>
    /\ ret["c1"] = Str("insert_final_newline")
    /\ pc["c2"] = "returned" /\ op["c2"] = "parse_value"

(***************************************************************************)
(* C7.  For every property and every raw string parse_value returns: a     *)
(* call never panics, the value it returns is None or a value of the       *)
(* property's type, and an unrecognized input gives plain None, never a    *)
(* default or a partial result.                                            *)
(***************************************************************************)
\* v is a value of P's Value type.
IsValueOf(P, v) ==
    LET IsUsize(x) == DOMAIN x = {"usize"} /\ x.usize \in 0..UsizeMax
    IN CASE P \in EnumProps ->
                 /\ DOMAIN v = {"enum", "variant"}
                 /\ v.enum = P
                 /\ \E e \in DocTable(P) : v.variant = e[2]
         [] P \in BoolProps -> DOMAIN v = {"bool"} /\ v.bool \in BOOLEAN
         [] P = "TabWidth" -> IsUsize(v)
         [] P \in OptionProps ->
                 \/ v = None
                 \/ DOMAIN v = {"tag", "val"} /\ v.tag = "Some" /\ IsUsize(v.val)

\* raw is a value the documentation of P recognizes.
Recognized(P, r) ==
    CASE P \in EnumProps -> \E e \in DocTable(P) : r = e[1]
      [] P \in BoolProps -> r \in {str_true, str_false}
      [] P = "TabWidth" -> InUsizeGrammar(r)
      [] P \in OptionProps -> r = DocSentinel(P) \/ InUsizeGrammar(r)

C7_TotalNoDefault ==
    \A c \in Callers :
        /\ pc[c] # "panicked"
        /\ \A P \in Props :
              Returned(c, P) =>
                  /\ ret[c] = None
                        \/ (DOMAIN ret[c] = {"tag", "val"} /\ ret[c].tag = "Some"
                            /\ IsValueOf(P, ret[c].val))
                  /\ ~Recognized(P, raw[c]) => ret[c] = None

\* MaxLineLength has been asked for non-ASCII text and has returned None.
C7_Witness ==
    /\ Returned("c1", "MaxLineLen")
    /\ raw["c1"] = <<"xC3", "xA9">>
    /\ ret["c1"] = None

(***************************************************************************)
(* C8.  parse_value is a pure function of (property, raw): under any       *)
(* interleaving of calls by the callers, each result equals the result of  *)
(* the same call made alone, two calls with the same property and raw      *)
(* return equal results, and a call changes nothing of another caller.     *)
(***************************************************************************)
\* v is the documented result of P::parse_value(r) called alone.
DocResult(P, r, v) ==
    CASE P \in EnumProps ->
             IF \E e \in DocTable(P) : r = e[1]
             THEN \E e \in DocTable(P) : r = e[1] /\ v = Some(Variant(P, e[2]))
             ELSE v = None
      [] P \in BoolProps ->
             IF r = str_true THEN v = Some(Bool(TRUE))
             ELSE IF r = str_false THEN v = Some(Bool(FALSE)) ELSE v = None
      [] P = "TabWidth" ->
             IF InUsizeGrammar(r) THEN IsUsizeOf(v, StripZeros(Unsigned(r)))
             ELSE v = None
      [] P \in OptionProps ->
             IF r = DocSentinel(P) THEN v = Some(None)
             ELSE IF InUsizeGrammar(r)
                  THEN v.tag = "Some" /\ IsUsizeOf(v.val, StripZeros(Unsigned(r)))
                  ELSE v = None

\* Everything caller c owns.
Own(c) == <<pc[c], op[c], prop[c], raw[c], ret[c], hist[c]>>

C8_Pure ==
    /\ [](\A c \in Callers : \A P \in Props :
             Returned(c, P) => DocResult(P, raw[c], ret[c]))
    /\ [](\A c, d \in Callers : \A P \in Props :
             Returned(c, P) /\ Returned(d, P) /\ raw[c] = raw[d]
                 => ret[c] = ret[d])
    /\ [][\A c, d \in Callers : Own(c)' # Own(c) /\ d # c => Own(d)' = Own(d)]_vars

\* Both callers hold the result of IndentSize::parse_value("tab"), each
\* after an earlier call of its own.
C8_Witness ==
    /\ Returned("c1", "IndentSize") /\ Returned("c2", "IndentSize")
    /\ raw["c1"] = str_tab /\ raw["c2"] = str_tab
    /\ Len(hist["c1"]) = 2 /\ Len(hist["c2"]) = 2
    /\ ret["c1"] = Some(None) /\ ret["c2"] = Some(None)

(***************************************************************************)
(* C9.  For TabWidth, IndentSize and MaxLineLength a raw string of decimal *)
(* digits denoting a number greater than usize::MAX gives None: never a    *)
(* value wrapped modulo 2^w, truncated or saturated, and for the optional  *)
(* properties None, not Some(None).  A digit string denoting exactly       *)
(* usize::MAX succeeds with that value.                                    *)
(***************************************************************************)
C9_OverflowFails ==
    \A c \in Callers : \A P \in IntProps :
        Returned(c, P) /\ AllDigits(raw[c]) =>
            /\ ExceedsUsizeMax(raw[c]) => ret[c] = None
            /\ StripZeros(raw[c]) = Decimal(UsizeMax) =>
                  ret[c] = IF P = "TabWidth" THEN Some(Usize(UsizeMax))
                           ELSE Some(Some(Usize(UsizeMax)))

\* IndentSize has been asked for the literal of 2^w, which a wrapping
\* parser would read as 0, and has failed.
C9_Witness ==
    /\ Returned("c1", "IndentSize")
    /\ raw["c1"] = Decimal(UsizeMax + 1)
    /\ ret["c1"] = None

(***************************************************************************)
(* C10.  The optional-scalar properties accept exactly TabWidth's integer  *)
(* grammar plus their sentinel: for every raw other than "tab",            *)
(* IndentSize's result is TabWidth's wrapped in presence, likewise         *)
(* MaxLineLength for every raw other than "off"; TabWidth fails on both    *)
(* sentinels.                                                              *)
(***************************************************************************)
\* Some(n) becomes Some(Some(n)), None stays None.
Wrapped(r) == IF r = None THEN None ELSE Some(r)

C10_SameGrammar ==
    \A c \in Callers :
        /\ \A P \in OptionProps :
              Returned(c, P) /\ raw[c] # DocSentinel(P) =>
                  ret[c] = Wrapped(parse_value("TabWidth", raw[c]))
        /\ Returned(c, "TabWidth") /\ raw[c] \in {str_tab, str_off} =>
              ret[c] = None

\* MaxLineLength has been asked for "+80" and has answered what TabWidth
\* answers, wrapped in presence.
C10_Witness ==
    /\ Returned("c1", "MaxLineLen")
    /\ raw["c1"] = <<"+", "8", "0">>
    /\ ret["c1"] = Some(Some(Usize(80)))

=============================================================================
